---------------------------- MODULE Spec2Model ----------------------------
(***************************************************************************)
(* A model of henryhwang/chatbot: the conversation history, the context    *)
(* selection under a token budget, and the streaming (SSE) response        *)
(* decoder with its commit-to-history decision.                            *)
(*                                                                         *)
(*   Spec        one call of api.QueryHandler (internal/api/api.go): the   *)
(*               user message is appended, the request is sent, the        *)
(*               response body is scanned line by line and the turn is     *)
(*               resolved.                                                 *)
(*   SpecSelect  the History Store (Conversation.AddMessage) and the       *)
(*               token-budgeted context strategy applied to it.            *)
(*   SpecStore   the Conversation of internal/conversation as a Go slice:  *)
(*               AddMessage, GetMessagesForAPI and a caller that writes    *)
(*               through the slice it was handed.                          *)
(*   SpecTurns   a session of several calls of QueryHandler on the same    *)
(*               history, with short response bodies.                      *)
(***************************************************************************)
EXTENDS Integers, Sequences, FiniteSets, TLC

VARIABLES
    messages,            \* the conversation history (*messages / c.Messages)
    pc,                  \* where the turn is: "prompt", "stream", "ended", "returned"
    body,                \* the lines of the HTTP response body (resp.Body)
    pos,                 \* lines the bufio.Scanner has delivered so far
    scanErr,             \* scanner.Err() # nil
    fullResponse,        \* strings.Builder: the accumulated answer content
    assistantRole,
    currentlyReasoning,
    reasoningPrinted,
    botPrefixPrinted,
    out,                 \* what handleStreamResponse printed on stdout
    logged,              \* log.Printf calls of handleStreamResponse
    final,               \* what QueryHandler printed after the stream ended
    systemPrompt,        \* the configured system prompt text ("" when none)
    maxTokens,           \* the token budget of the conversation
    selected,            \* the context computed for the request in preparation
    outcome,             \* what became of the request: sent, or refused with an error
    capacity,            \* cap(c.Messages): the room of the history's backing array
    handed               \* the slice GetMessagesForAPI returned to its caller

decoderVars == <<fullResponse, assistantRole, currentlyReasoning,
                 reasoningPrinted, botPrefixPrinted, out, logged>>
streamVars == <<body, pos, scanErr>>
selectVars == <<systemPrompt, maxTokens, selected>>
storeVars == <<capacity, handed>>
vars == <<messages, pc, body, pos, scanErr, fullResponse, assistantRole,
          currentlyReasoning, reasoningPrinted, botPrefixPrinted, out, logged,
          final, systemPrompt, maxTokens, selected, outcome, capacity, handed>>

---------------------------------------------------------------------------
(* Bounds of the model. *)

\* The longest response body, in lines.
MaxLines == 3

\* The longest history built by AddMessage under SpecSelect.
MaxHistory == 3

\* The longest history built under SpecStore: past maxMessagesForAPI and past
\* the room NewConversation allocates.
MaxStore == 23

\* The most entries a caller overwrites through the slice it was handed.
MaxEdits == 1

\* The longest response body of a turn under SpecTurns, in lines.
MaxTurnLines == 2

\* The history length from which the session under SpecTurns takes no
\* further turn.
MaxTurnHistory == 3

---------------------------------------------------------------------------
(* Program constants. *)

maxHistoryMessages == 20

maxMessagesForAPI == 20

DefaultMaxTokens == 32000

DefaultSystemPrompt == "you are great as golang developer"

reasoningPrefix == "Reasoning: "

botPrefix == "Bot: "

NL == "\n"

NoContentNotice == "Bot: Received no response content."

ReadErrorNotice == "Bot: Error reading stream"

NoTextNotice == "Bot: Finished processing, but no text content was generated."

---------------------------------------------------------------------------
(* Messages and response lines. *)

\* types.Message without its Timestamp, which is never sent nor compared.
Message(role, content) == [role |-> role, content |-> content]

\* types.Delta: the three optional fields, "" when absent (omitempty).
Delta(role, content, reasoning) ==
    [Role |-> role, Content |-> content, Reasoning |-> reasoning]

\* One line of the response body.  marker: the line starts with "data: ";
\* text: what follows the marker (the whole line when there is none), which
\* is the sentinel "[DONE]", a text json.Unmarshal rejects, or a JSON object
\* whose "choices" array holds the given deltas.
Line(marker, text, choices) ==
    [marker |-> marker, text |-> text, choices |-> choices]

DoneLine == Line(TRUE, "[DONE]", <<>>)

\* A comment or event line carrying JSON: not a data line either.
OtherLine == Line(FALSE, "json", <<Delta("", "zz", "")>>)

MalformedLine == Line(TRUE, "malformed", <<>>)

EventLine(role, content, reasoning) ==
    Line(TRUE, "json", <<Delta(role, content, reasoning)>>)

NoChoicesLine == Line(TRUE, "json", <<>>)

TwoChoicesLine == Line(TRUE, "json", <<Delta("", "", ""), Delta("bot2", "xx", "yy")>>)

Lines ==
    { DoneLine, OtherLine, MalformedLine,
      EventLine("", "Hel", ""), EventLine("", "lo", ""),
      EventLine("", "", "hm"), EventLine("bot", "", ""), EventLine("ai", "", ""),
      EventLine("", "!", "so"), NoChoicesLine, TwoChoicesLine }

RECURSIVE SeqsUpTo(_, _)
SeqsUpTo(S, n) ==
    IF n = 0 THEN {<<>>}
    ELSE LET shorter == SeqsUpTo(S, n - 1)
         IN  shorter \cup {Append(s, x) : s \in {t \in shorter : Len(t) = n - 1}, x \in S}

Bodies == SeqsUpTo(Lines, MaxLines)

Inputs == {"hello"}

RECURSIVE Alternating(_)
Alternating(n) ==
    IF n = 0 THEN <<>>
    ELSE Append(Alternating(n - 1),
                IF n % 2 = 1 THEN Message("user", "q") ELSE Message("assistant", "a"))

\* Histories a turn can start from: none, one earlier turn, and a history
\* that the next user message takes past maxHistoryMessages.
InitialHistories ==
    { <<>>,
      <<Message("user", "hi"), Message("assistant", "Hello")>>,
      Alternating(maxHistoryMessages) }

---------------------------------------------------------------------------
(* handleStreamResponse: the decoder. *)

\* Mutant: every line is taken for a data line.
HasPrefixAlways(line) == TRUE

\* strings.HasPrefix(line, "data: ")
HasPrefix(line) == line.marker

\* strings.TrimPrefix(line, "data: ")
TrimPrefix(line) == [text |-> line.text, choices |-> line.choices]

\* json.Unmarshal([]byte(data), &streamResp)
Unmarshal(data) ==
    IF data.text = "json"
    THEN [err |-> FALSE, Choices |-> data.choices]
    ELSE [err |-> TRUE, Choices |-> <<>>]

\* The locals of handleStreamResponse as it enters the loop.
InitDecoder ==
    [fullResponse |-> "", assistantRole |-> "assistant",
     currentlyReasoning |-> FALSE, reasoningPrinted |-> FALSE,
     botPrefixPrinted |-> FALSE, out |-> <<>>, logged |-> 0, brk |-> FALSE]

\* Mutant: the role is taken from every delta, also when it carries none.
ApplyRoleAlways(d, delta) == [d EXCEPT !.assistantRole = delta.Role]

\* Mutant: only the first role of the stream is adopted.
ApplyRoleOnce(d, delta) ==
    IF delta.Role # "" /\ d.assistantRole = "assistant"
    THEN [d EXCEPT !.assistantRole = delta.Role]
    ELSE d

\* if delta.Role != "" { assistantRole = delta.Role }
ApplyRole(d, delta) ==
    IF delta.Role # "" THEN [d EXCEPT !.assistantRole = delta.Role] ELSE d

\* Mutant: entering reasoning leaves the answer prefix marked as printed.
ApplyReasoningKeepsPrefix(d, delta) ==
    IF delta.Reasoning = "" THEN d
    ELSE IF ~d.currentlyReasoning
         THEN [d EXCEPT
                 !.out = d.out
                         \o (IF d.botPrefixPrinted THEN <<NL>> ELSE <<>>)
                         \o <<reasoningPrefix, delta.Reasoning>>,
                 !.currentlyReasoning = TRUE,
                 !.reasoningPrinted = TRUE]
         ELSE [d EXCEPT !.out = Append(d.out, delta.Reasoning)]

\* Mutant: reasoning that follows content starts without the separator.
ApplyReasoningNoSeparator(d, delta) ==
    IF delta.Reasoning = "" THEN d
    ELSE IF ~d.currentlyReasoning
         THEN [d EXCEPT
                 !.out = d.out \o <<reasoningPrefix, delta.Reasoning>>,
                 !.currentlyReasoning = TRUE,
                 !.reasoningPrinted = TRUE,
                 !.botPrefixPrinted = FALSE]
         ELSE [d EXCEPT !.out = Append(d.out, delta.Reasoning)]

\* Mutant: reasoning is printed without being recorded for the turn.
ApplyReasoningUnrecorded(d, delta) ==
    IF delta.Reasoning = "" THEN d
    ELSE IF ~d.currentlyReasoning
         THEN [d EXCEPT
                 !.out = d.out
                         \o (IF d.botPrefixPrinted THEN <<NL>> ELSE <<>>)
                         \o <<reasoningPrefix, delta.Reasoning>>,
                 !.currentlyReasoning = TRUE,
                 !.botPrefixPrinted = FALSE]
         ELSE [d EXCEPT !.out = Append(d.out, delta.Reasoning)]

\* Mutant: the reasoning text goes into the history buffer as well.
ApplyReasoningKept(d, delta) ==
    IF delta.Reasoning = "" THEN d
    ELSE [d EXCEPT
            !.out = d.out
                    \o (IF ~d.currentlyReasoning /\ d.botPrefixPrinted THEN <<NL>> ELSE <<>>)
                    \o (IF ~d.currentlyReasoning THEN <<reasoningPrefix>> ELSE <<>>)
                    \o <<delta.Reasoning>>,
            !.currentlyReasoning = TRUE,
            !.reasoningPrinted = TRUE,
            !.botPrefixPrinted = IF d.currentlyReasoning THEN d.botPrefixPrinted ELSE FALSE,
            !.fullResponse = d.fullResponse \o delta.Reasoning]

\* if delta.Reasoning != "" { ... }
ApplyReasoning(d, delta) ==
    IF delta.Reasoning = "" THEN d
    ELSE IF ~d.currentlyReasoning
         THEN [d EXCEPT
                 !.out = d.out
                         \o (IF d.botPrefixPrinted THEN <<NL>> ELSE <<>>)
                         \o <<reasoningPrefix, delta.Reasoning>>,
                 !.currentlyReasoning = TRUE,
                 !.reasoningPrinted = TRUE,
                 !.botPrefixPrinted = FALSE]
         ELSE [d EXCEPT !.out = Append(d.out, delta.Reasoning)]

\* Mutant: content that follows reasoning leaves the reasoning mode on.
ApplyContentInReasoning(d, delta) ==
    IF delta.Content = "" THEN d
    ELSE [d EXCEPT
            !.out = d.out
                    \o (IF d.currentlyReasoning THEN <<NL>> ELSE <<>>)
                    \o (IF ~d.botPrefixPrinted THEN <<botPrefix>> ELSE <<>>)
                    \o <<delta.Content>>,
            !.botPrefixPrinted = TRUE,
            !.fullResponse = d.fullResponse \o delta.Content]

\* if delta.Content != "" { ... }
ApplyContent(d, delta) ==
    IF delta.Content = "" THEN d
    ELSE [d EXCEPT
            !.out = d.out
                    \o (IF d.currentlyReasoning THEN <<NL>> ELSE <<>>)
                    \o (IF ~d.botPrefixPrinted THEN <<botPrefix>> ELSE <<>>)
                    \o <<delta.Content>>,
            !.currentlyReasoning = FALSE,
            !.botPrefixPrinted = TRUE,
            !.fullResponse = d.fullResponse \o delta.Content]

\* Mutant: the content of an event is handled before its reasoning.
ApplyChoicesContentFirst(d, choices) ==
    IF Len(choices) > 0
    THEN ApplyReasoning(ApplyContent(ApplyRole(d, choices[1]), choices[1]), choices[1])
    ELSE d

\* Mutant: the last choice of an event is interpreted instead of the first.
ApplyChoicesLast(d, choices) ==
    IF Len(choices) > 0
    THEN LET delta == choices[Len(choices)]
         IN  ApplyContent(ApplyReasoning(ApplyRole(d, delta), delta), delta)
    ELSE d

\* if len(streamResp.Choices) > 0 { delta := streamResp.Choices[0].Delta ... }
ApplyChoices(d, choices) ==
    IF Len(choices) > 0
    THEN ApplyContent(ApplyReasoning(ApplyRole(d, choices[1]), choices[1]), choices[1])
    ELSE d

\* Mutant: the sentinel line is passed over and the loop goes on.
SentinelContinue(d) == d

\* if data == "[DONE]" { break }
SentinelBreak(d) == [d EXCEPT !.brk = TRUE]

\* Mutant: a payload that does not parse ends the loop.
UnmarshalAborts(d) == [d EXCEPT !.logged = d.logged + 1, !.brk = TRUE]

\* if err != nil { log.Printf(...); continue }
UnmarshalFailed(d) == [d EXCEPT !.logged = d.logged + 1]

\* The body of the scanner loop for one line.
ProcessLine(d, line) ==
    IF ~HasPrefix(line) THEN d
    ELSE LET data == TrimPrefix(line)
         IN  IF data.text = "[DONE]" THEN SentinelBreak(d)
             ELSE LET streamResp == Unmarshal(data)
                  IN  IF streamResp.err THEN UnmarshalFailed(d)
                      ELSE ApplyChoices(d, streamResp.Choices)

\* The scanner loop over the lines it is given, from the decoder state d.
RECURSIVE RunLines(_, _)
RunLines(d, lines) ==
    IF Len(lines) = 0 \/ d.brk THEN d
    ELSE RunLines(ProcessLine(d, Head(lines)), Tail(lines))

\* handleStreamResponse on a body that is read without error.
HandleStream(lines) == RunLines(InitDecoder, lines)

\* The decoder's locals, read from the state.
DecoderState ==
    [fullResponse |-> fullResponse, assistantRole |-> assistantRole,
     currentlyReasoning |-> currentlyReasoning,
     reasoningPrinted |-> reasoningPrinted,
     botPrefixPrinted |-> botPrefixPrinted, out |-> out, logged |-> logged,
     brk |-> FALSE]

SetDecoder(d) ==
    /\ fullResponse' = d.fullResponse
    /\ assistantRole' = d.assistantRole
    /\ currentlyReasoning' = d.currentlyReasoning
    /\ reasoningPrinted' = d.reasoningPrinted
    /\ botPrefixPrinted' = d.botPrefixPrinted
    /\ out' = d.out
    /\ logged' = d.logged

---------------------------------------------------------------------------
(* The History Store and the context strategy. *)

Text28 == "abcdefghijklmnopqrstuvwxyz01"

Text40 == "abcdefghijklmnopqrstuvwxyz0123456789abcd"

\* Message texts of estimated cost 5, 12 and 15.
Contents == {"hi", Text28, Text40}

Roles == {"user", "assistant"}

SystemTexts == {"", " \t ", "be concise", DefaultSystemPrompt}

TokenBudgets == {6, 12, 20, DefaultMaxTokens}

\* No context has been computed for the request in preparation.
NoSelection == [made |-> FALSE, err |-> FALSE, msgs |-> <<>>]

\* No request yet in this turn.
NoRequest == [sent |-> FALSE, err |-> FALSE, msgs |-> <<>>]

\* No slice of the history is in a caller's hands.
NoHand == [made |-> FALSE, fresh |-> FALSE, shared |-> FALSE, lo |-> 0, msgs |-> <<>>]

\* Mutant: the new message goes in front of the history.
AddMessageFirst(msgs, role, content) == <<Message(role, content)>> \o msgs

\* c.Messages = append(c.Messages, types.Message{Role, Content, Timestamp})
AddMessageTo(msgs, role, content) == Append(msgs, Message(role, content))

\* strings.TrimSpace: the text without its leading and trailing white space.
RECURSIVE TrimLeft(_)
TrimLeft(text) ==
    IF Len(text) > 0 /\ Head(text) \in {" ", "\t", "\n", "\r", "\f"}
    THEN TrimLeft(Tail(text))
    ELSE text

RECURSIVE TrimRight(_)
TrimRight(text) ==
    IF Len(text) > 0 /\ SubSeq(text, Len(text), Len(text)) \in {" ", "\t", "\n", "\r", "\f"}
    THEN TrimRight(SubSeq(text, 1, Len(text) - 1))
    ELSE text

TrimSpace(text) == TrimRight(TrimLeft(text))

\* Mutant: only the empty text counts as no system prompt.
SystemMessageUntrimmed(text) ==
    IF text = "" THEN <<>> ELSE <<Message("system", text)>>

\* systemPrompt(): the system message, or none (the empty sequence) when the
\* configured text is empty or white space only.
SystemMessage(text) ==
    IF TrimSpace(text) = "" THEN <<>> ELSE <<Message("system", text)>>

\* cost(text) = 5 + floor(length(text) / 4)
EstimateTokens(text) == 5 + (Len(text) \div 4)

Reverse(s) == [i \in 1..Len(s) |-> s[Len(s) + 1 - i]]

\* Mutant: a message that does not fit is passed over and the walk goes on.
RECURSIVE WalkBackSkipping(_, _, _, _)
WalkBackSkipping(hist, i, total, max) ==
    IF i = 0 THEN <<>>
    ELSE LET cost == EstimateTokens(hist[i].content)
         IN  IF total + cost <= max
             THEN <<hist[i]>> \o WalkBackSkipping(hist, i - 1, total + cost, max)
             ELSE WalkBackSkipping(hist, i - 1, total, max)

\* Mutant: a message that fills the budget exactly is refused.
RECURSIVE WalkBackStrict(_, _, _, _)
WalkBackStrict(hist, i, total, max) ==
    IF i = 0 THEN <<>>
    ELSE LET cost == EstimateTokens(hist[i].content)
         IN  IF total + cost < max
             THEN <<hist[i]>> \o WalkBackStrict(hist, i - 1, total + cost, max)
             ELSE <<>>

\* Mutant: the newest message is included whatever it costs.
RECURSIVE WalkBackNewestAlways(_, _, _, _)
WalkBackNewestAlways(hist, i, total, max) ==
    IF i = 0 THEN <<>>
    ELSE LET cost == EstimateTokens(hist[i].content)
         IN  IF total + cost <= max \/ i = Len(hist)
             THEN <<hist[i]>> \o WalkBackNewestAlways(hist, i - 1, total + cost, max)
             ELSE <<>>

\* The walk from hist[i] towards the oldest message, total being the cost
\* taken so far: the messages included, newest first.
RECURSIVE WalkBack(_, _, _, _)
WalkBack(hist, i, total, max) ==
    IF i = 0 THEN <<>>
    ELSE LET cost == EstimateTokens(hist[i].content)
         IN  IF total + cost <= max
             THEN <<hist[i]>> \o WalkBack(hist, i - 1, total + cost, max)
             ELSE <<>>

\* Mutant: the walk starts from a total of 0, the system prompt uncounted.
SelectIgnoringSystemCost(sys, hist, max) ==
    LET sysMsg == SystemMessage(sys)
        sysCost == IF Len(sysMsg) = 0 THEN 0 ELSE EstimateTokens(sysMsg[1].content)
    IN  IF sysCost > max
        THEN [made |-> TRUE, err |-> TRUE, msgs |-> <<>>]
        ELSE [made |-> TRUE, err |-> FALSE,
              msgs |-> sysMsg \o Reverse(WalkBack(hist, Len(hist), 0, max))]

\* Mutant: the system prompt is not checked against the budget.
SelectWithoutBudgetCheck(sys, hist, max) ==
    LET sysMsg == SystemMessage(sys)
        sysCost == IF Len(sysMsg) = 0 THEN 0 ELSE EstimateTokens(sysMsg[1].content)
    IN  [made |-> TRUE, err |-> FALSE,
         msgs |-> sysMsg \o Reverse(WalkBack(hist, Len(hist), sysCost, max))]

\* select(systemPrompt, fullHistory, maxTokens)
Select(sys, hist, max) ==
    LET sysMsg == SystemMessage(sys)
        sysCost == IF Len(sysMsg) = 0 THEN 0 ELSE EstimateTokens(sysMsg[1].content)
    IN  IF sysCost > max
        THEN [made |-> TRUE, err |-> TRUE, msgs |-> <<>>]
        ELSE [made |-> TRUE, err |-> FALSE,
              msgs |-> sysMsg \o Reverse(WalkBack(hist, Len(hist), sysCost, max))]

\* Conversation.AddMessage(role, content).  A context computed earlier is a
\* per-request view and is gone by the time the history grows.
AddMessage ==
    /\ pc = "prompt"
    /\ Len(messages) < MaxHistory
    /\ \E role \in Roles, content \in Contents :
        messages' = AddMessageTo(messages, role, content)
    /\ selected' = NoSelection
    /\ outcome' = NoRequest
    /\ UNCHANGED <<pc, streamVars, decoderVars, final, systemPrompt, maxTokens, storeVars>>

\* The context strategy applied to the store for the next request.
SelectContext ==
    /\ pc = "prompt"
    /\ selected' = Select(systemPrompt, messages, maxTokens)
    /\ UNCHANGED <<messages, pc, streamVars, decoderVars, final, systemPrompt,
                   maxTokens, outcome, storeVars>>

InitSelect ==
    /\ messages = <<>>
    /\ pc = "prompt"
    /\ body = <<>>
    /\ pos = 0
    /\ scanErr = FALSE
    /\ fullResponse = ""
    /\ assistantRole = "assistant"
    /\ currentlyReasoning = FALSE
    /\ reasoningPrinted = FALSE
    /\ botPrefixPrinted = FALSE
    /\ out = <<>>
    /\ logged = 0
    /\ final = <<>>
    /\ systemPrompt \in SystemTexts
    /\ maxTokens \in TokenBudgets
    /\ selected = NoSelection
    /\ outcome = NoRequest
    /\ capacity = maxMessagesForAPI + 1
    /\ handed = NoHand

\* Mutant: the request goes out whatever the selection said.
SendRequestUnchecked ==
    /\ pc = "prompt"
    /\ selected.made
    /\ ~outcome.sent /\ ~outcome.err
    /\ outcome' = [sent |-> TRUE, err |-> FALSE, msgs |-> selected.msgs]
    /\ UNCHANGED <<messages, pc, streamVars, decoderVars, final, selectVars, storeVars>>

\* api.QueryHandler(conv, input, provider) after the selection: BudgetExceeded
\* is returned to the caller (err != nil in main) and nothing is sent;
\* otherwise the selected context is the request's "messages".
SendRequest ==
    /\ pc = "prompt"
    /\ selected.made
    /\ ~outcome.sent /\ ~outcome.err
    /\ outcome' = IF selected.err
                  THEN [sent |-> FALSE, err |-> TRUE, msgs |-> <<>>]
                  ELSE [sent |-> TRUE, err |-> FALSE, msgs |-> selected.msgs]
    /\ UNCHANGED <<messages, pc, streamVars, decoderVars, final, selectVars, storeVars>>

NextSelect ==
    \/ AddMessage
    \/ SelectContext
    \/ SendRequest

SpecSelect == InitSelect /\ [][NextSelect]_vars

---------------------------------------------------------------------------
(* The Conversation of internal/conversation: c.Messages is a Go slice, and  *)
(* GetMessagesForAPI returns a slice of the same backing array.  A slice is  *)
(* modelled by the elements it shows (messages, handed.msgs), the offset of  *)
(* the handed slice in the array (handed.lo) and whether the two still       *)
(* share the array (handed.shared).                                          *)

\* NewConversation(initialMessages...): the initial messages are the first
\* entries of c.Messages.
NewConversation(initialMessages) == initialMessages

\* The message of the n-th AddMessage call of a session.
StoreMessage(n) ==
    Message(IF n % 2 = 1 THEN "user" ELSE "assistant", "m" \o ToString(n))

\* What a caller writes into the slice it holds.
Edited == Message("user", "edited")

RECURSIVE EditCount(_)
EditCount(msgs) ==
    IF Len(msgs) = 0 THEN 0
    ELSE (IF Head(msgs) = Edited THEN 1 ELSE 0) + EditCount(Tail(msgs))

\* Conversation.AddMessage on a store whose slices are in callers' hands.
\* append writes behind the last entry when the array has room and moves the
\* history to a new, larger array when it has none; the slice handed out
\* earlier keeps the old array.
ConversationAddMessage ==
    /\ pc = "prompt"
    /\ Len(messages) < MaxStore
    /\ LET m == StoreMessage(Len(messages) + 1)
       IN  messages' = AddMessageTo(messages, m.role, m.content)
    /\ capacity' = IF Len(messages) < capacity THEN capacity ELSE 2 * capacity
    /\ handed' = IF handed.made
                 THEN [handed EXCEPT !.fresh = FALSE,
                                     !.shared = handed.shared /\ Len(messages) < capacity]
                 ELSE handed
    /\ UNCHANGED <<pc, streamVars, decoderVars, final, selectVars, outcome>>

\* Mutant: the store itself is cut down to the messages handed out.
GetMessagesForAPITruncating ==
    /\ pc = "prompt"
    /\ LET numMessages == Len(messages)
           startIndex == IF numMessages <= maxMessagesForAPI THEN 0
                         ELSE numMessages - maxMessagesForAPI
       IN  /\ messages' = SubSeq(messages, startIndex + 1, numMessages)
           /\ handed' = [made |-> TRUE, fresh |-> TRUE, shared |-> TRUE, lo |-> 0,
                         msgs |-> SubSeq(messages, startIndex + 1, numMessages)]
    /\ UNCHANGED <<pc, streamVars, decoderVars, final, selectVars, outcome, capacity>>

\* Mutant: the oldest messages are handed out instead of the most recent.
GetMessagesForAPIOldest ==
    /\ pc = "prompt"
    /\ LET numMessages == Len(messages)
           count == IF numMessages <= maxMessagesForAPI THEN numMessages
                    ELSE maxMessagesForAPI
       IN  handed' = [made |-> TRUE, fresh |-> TRUE, shared |-> TRUE, lo |-> 0,
                      msgs |-> SubSeq(messages, 1, count)]
    /\ UNCHANGED <<messages, pc, streamVars, decoderVars, final, selectVars,
                   outcome, capacity>>

\* Conversation.GetMessagesForAPI: c.Messages itself, or c.Messages[startIndex:].
GetMessagesForAPI ==
    /\ pc = "prompt"
    /\ LET numMessages == Len(messages)
           startIndex == IF numMessages <= maxMessagesForAPI THEN 0
                         ELSE numMessages - maxMessagesForAPI
       IN  handed' = [made |-> TRUE, fresh |-> TRUE, shared |-> TRUE,
                      lo |-> startIndex,
                      msgs |-> SubSeq(messages, startIndex + 1, numMessages)]
    /\ UNCHANGED <<messages, pc, streamVars, decoderVars, final, selectVars,
                   outcome, capacity>>

\* The caller assigns to an element of the slice it was handed: r[i] = m.
\* While the array is shared the element is the store's as well.
CallerWrite ==
    /\ pc = "prompt"
    /\ handed.made
    /\ Len(handed.msgs) > 0
    /\ EditCount(handed.msgs) < MaxEdits
    /\ EditCount(messages) < MaxEdits
    /\ \E i \in {1, Len(handed.msgs)} :
          /\ handed' = [handed EXCEPT !.fresh = FALSE, !.msgs[i] = Edited]
          /\ messages' = IF handed.shared
                         THEN [messages EXCEPT ![handed.lo + i] = Edited]
                         ELSE messages
    /\ UNCHANGED <<pc, streamVars, decoderVars, final, selectVars, outcome, capacity>>

\* The caller cuts its slice down to the first element: r = r[:1].
CallerTruncate ==
    /\ pc = "prompt"
    /\ handed.made
    /\ Len(handed.msgs) > 1
    /\ handed' = [handed EXCEPT !.fresh = FALSE, !.msgs = SubSeq(handed.msgs, 1, 1)]
    /\ UNCHANGED <<messages, pc, streamVars, decoderVars, final, selectVars,
                   outcome, capacity>>

\* The caller appends to the slice it was handed: append(r, m).  The element
\* lands in the shared array behind the caller's slice, which is an entry of
\* the store when the store is longer than the slice; with no room left the
\* result is a new array.
CallerAppend ==
    /\ pc = "prompt"
    /\ handed.made
    /\ EditCount(messages) < MaxEdits
    /\ LET idx == handed.lo + Len(handed.msgs) + 1
       IN  messages' = IF handed.shared /\ idx <= Len(messages)
                       THEN [messages EXCEPT ![idx] = Edited]
                       ELSE messages
    /\ handed' = [handed EXCEPT !.fresh = FALSE]
    /\ UNCHANGED <<pc, streamVars, decoderVars, final, selectVars, outcome, capacity>>

InitStore ==
    /\ \E text \in {"", DefaultSystemPrompt} :
          /\ systemPrompt = text
          /\ messages = NewConversation(IF text = "" THEN <<>>
                                        ELSE <<Message("system", text)>>)
    /\ pc = "prompt"
    /\ body = <<>>
    /\ pos = 0
    /\ scanErr = FALSE
    /\ fullResponse = ""
    /\ assistantRole = "assistant"
    /\ currentlyReasoning = FALSE
    /\ reasoningPrinted = FALSE
    /\ botPrefixPrinted = FALSE
    /\ out = <<>>
    /\ logged = 0
    /\ final = <<>>
    /\ maxTokens = DefaultMaxTokens
    /\ selected = NoSelection
    /\ outcome = NoRequest
    /\ capacity = maxMessagesForAPI + 1
    /\ handed = NoHand

NextStore ==
    \/ ConversationAddMessage
    \/ GetMessagesForAPI
    \/ CallerWrite
    \/ CallerTruncate
    \/ CallerAppend

SpecStore == InitStore /\ [][NextStore]_vars

---------------------------------------------------------------------------
(* QueryHandler. *)

\* *messages = append(*messages, user); keep the last maxHistoryMessages.
AppendUser(msgs, input) ==
    LET appended == Append(msgs, Message("user", input))
    IN  IF Len(appended) > maxHistoryMessages
        THEN SubSeq(appended, Len(appended) - maxHistoryMessages + 1, Len(appended))
        ELSE appended

\* QueryHandler up to a failed request: http.NewRequest or client.Do fails,
\* or the status is not 200.  The handler prints the error and returns.
\* (json.Marshal of a request of strings and a bool does not fail.)
QueryFailed ==
    /\ pc = "prompt"
    /\ \E input \in Inputs : messages' = AppendUser(messages, input)
    /\ pc' = "returned"
    /\ UNCHANGED <<streamVars, decoderVars, final, selectVars, outcome, storeVars>>

\* QueryHandler up to the first scanner.Scan(): the request succeeded with
\* status 200 and handleStreamResponse has initialised its locals.
QueryStream ==
    /\ pc = "prompt"
    /\ \E input \in Inputs : messages' = AppendUser(messages, input)
    /\ \E b \in Bodies : body' = b
    /\ pos' = 0
    /\ scanErr' = FALSE
    /\ SetDecoder(InitDecoder)
    /\ pc' = "stream"
    /\ UNCHANGED <<final, selectVars, outcome, storeVars>>

\* Mutant: the loop goes on with the next line although the read failed.
ScanLineAfterError ==
    /\ pc = "stream"
    /\ pos < Len(body)
    /\ \E lastOfBuffer \in BOOLEAN :
        LET d == ProcessLine(DecoderState, body[pos + 1])
        IN  /\ SetDecoder(d)
            /\ pos' = pos + 1
            /\ scanErr' = (scanErr \/ lastOfBuffer)
            /\ pc' = IF d.brk THEN "ended" ELSE "stream"
    /\ UNCHANGED <<messages, body, final, selectVars, outcome, storeVars>>

\* Mutant: the loop commits what it has accumulated after every line.
ScanLineCommitting ==
    /\ pc = "stream"
    /\ ~scanErr
    /\ pos < Len(body)
    /\ \E lastOfBuffer \in BOOLEAN :
        LET d == ProcessLine(DecoderState, body[pos + 1])
        IN  /\ SetDecoder(d)
            /\ pos' = pos + 1
            /\ scanErr' = lastOfBuffer
            /\ pc' = IF d.brk THEN "ended" ELSE "stream"
            /\ messages' = IF d.fullResponse # ""
                           THEN Append(messages, Message(d.assistantRole, d.fullResponse))
                           ELSE messages
    /\ UNCHANGED <<body, final, selectVars, outcome, storeVars>>

\* scanner.Scan() returns true with the next line, and the loop body runs.
\* The scanner may have recorded a read error while it delivered the line as
\* the last, unterminated one of its buffer (lastOfBuffer): its next Scan
\* returns false.
ScanLine ==
    /\ pc = "stream"
    /\ ~scanErr
    /\ pos < Len(body)
    /\ \E lastOfBuffer \in BOOLEAN :
        LET d == ProcessLine(DecoderState, body[pos + 1])
        IN  /\ SetDecoder(d)
            /\ pos' = pos + 1
            /\ scanErr' = lastOfBuffer
            /\ pc' = IF d.brk THEN "ended" ELSE "stream"
    /\ UNCHANGED <<messages, body, final, selectVars, outcome, storeVars>>

\* scanner.Scan() returns false at the end of the body.
ScanEOF ==
    /\ pc = "stream"
    /\ ~scanErr
    /\ pos = Len(body)
    /\ pc' = "ended"
    /\ UNCHANGED <<messages, streamVars, decoderVars, final, selectVars, outcome, storeVars>>

\* scanner.Scan() returns false because reading the body failed (now, or
\* while the previous line was delivered).
ScanError ==
    /\ pc = "stream"
    /\ scanErr' = TRUE
    /\ pc' = "ended"
    /\ UNCHANGED <<messages, body, pos, decoderVars, final, selectVars, outcome, storeVars>>

\* Mutant: the no-text notice is given whenever no content was accumulated.
FinalOutputNoticeOnEmpty ==
    (IF botPrefixPrinted \/ reasoningPrinted THEN <<NL>> ELSE <<NoContentNotice>>)
    \o (IF scanErr THEN <<ReadErrorNotice>>
        ELSE IF fullResponse = "" THEN <<NoTextNotice>>
        ELSE <<>>)

\* Mutant: a turn that produced nothing ends silently.
FinalOutputSilent ==
    (IF botPrefixPrinted \/ reasoningPrinted THEN <<NL>> ELSE <<NoContentNotice>>)
    \o (IF scanErr THEN <<ReadErrorNotice>> ELSE <<>>)

\* Mutant: the no-text notice is given after a read error as well.
FinalOutputNoticeOnFailure ==
    (IF botPrefixPrinted \/ reasoningPrinted THEN <<NL>> ELSE <<NoContentNotice>>)
    \o (IF scanErr THEN <<ReadErrorNotice>> ELSE <<>>)
    \o (IF fullResponse = "" /\ ~reasoningPrinted THEN <<NoTextNotice>> ELSE <<>>)

\* What QueryHandler prints once handleStreamResponse has returned.
FinalOutput ==
    (IF botPrefixPrinted \/ reasoningPrinted THEN <<NL>> ELSE <<NoContentNotice>>)
    \o (IF scanErr THEN <<ReadErrorNotice>>
        ELSE IF fullResponse = "" /\ ~reasoningPrinted THEN <<NoTextNotice>>
        ELSE <<>>)

\* Mutant: the assistant message is put in front of the turn's user message.
CommitBeforeUser(msgs) ==
    IF scanErr THEN msgs
    ELSE IF Len(fullResponse) > 0
         THEN SubSeq(msgs, 1, Len(msgs) - 1)
              \o <<Message(assistantRole, fullResponse), msgs[Len(msgs)]>>
         ELSE msgs

\* Mutant: only a stream that ended with the sentinel is committed.
CommitAfterSentinelOnly(msgs) ==
    IF scanErr THEN msgs
    ELSE IF Len(fullResponse) > 0 /\ pos > 0 /\ body[pos] = DoneLine
         THEN Append(msgs, Message(assistantRole, fullResponse))
         ELSE msgs

\* Mutant: the scanner's error is not looked at before the commit.
CommitDespiteError(msgs) ==
    IF Len(fullResponse) > 0
    THEN Append(msgs, Message(assistantRole, fullResponse))
    ELSE msgs

\* Mutant: the committed message always carries the default role.
CommitDefaultRole(msgs) ==
    IF scanErr THEN msgs
    ELSE IF Len(fullResponse) > 0
         THEN Append(msgs, Message("assistant", fullResponse))
         ELSE msgs

\* The history QueryHandler leaves behind.
Commit(msgs) ==
    IF scanErr THEN msgs
    ELSE IF Len(fullResponse) > 0
         THEN Append(msgs, Message(assistantRole, fullResponse))
         ELSE msgs

\* QueryHandler after handleStreamResponse: cleanup, the scanner.Err() check
\* and the commit of the assistant message.
Resolve ==
    /\ pc = "ended"
    /\ final' = FinalOutput
    /\ messages' = Commit(messages)
    /\ pc' = "returned"
    /\ UNCHANGED <<streamVars, decoderVars, selectVars, outcome, storeVars>>

Init ==
    /\ messages \in InitialHistories
    /\ pc = "prompt"
    /\ body = <<>>
    /\ pos = 0
    /\ scanErr = FALSE
    /\ fullResponse = ""
    /\ assistantRole = "assistant"
    /\ currentlyReasoning = FALSE
    /\ reasoningPrinted = FALSE
    /\ botPrefixPrinted = FALSE
    /\ out = <<>>
    /\ logged = 0
    /\ final = <<>>
    /\ systemPrompt = DefaultSystemPrompt
    /\ maxTokens = DefaultMaxTokens
    /\ selected = NoSelection
    /\ outcome = NoRequest
    /\ capacity = maxMessagesForAPI + 1
    /\ handed = NoHand

Next ==
    \/ QueryFailed
    \/ QueryStream
    \/ ScanLine
    \/ ScanEOF
    \/ ScanError
    \/ Resolve

Spec == Init /\ [][Next]_vars

\* The first turn of a session, which starts from no history.
InitFair ==
    /\ Init
    /\ messages = <<>>

\* QueryHandler is sequential code: while it has not returned it takes its
\* next step.
SpecFair == InitFair /\ [][Next]_vars /\ WF_vars(Next)

---------------------------------------------------------------------------
(* A session of several turns: main's loop calls QueryHandler again with the *)
(* same history.  What the previous call left in its locals stays in the     *)
(* state until the next call sets its own.                                   *)

\* The response lines of the session's turns.
TurnLines ==
    { DoneLine, EventLine("bot", "Hel", ""), EventLine("", "lo", ""),
      EventLine("", "", "hm") }

TurnBodies == SeqsUpTo(TurnLines, MaxTurnLines)

\* Mutant: the call goes on with the locals the previous call left behind.
TurnStreamStale ==
    /\ pc = "prompt"
    /\ \E input \in Inputs : messages' = AppendUser(messages, input)
    /\ \E b \in TurnBodies : body' = b
    /\ pos' = 0
    /\ scanErr' = FALSE
    /\ pc' = "stream"
    /\ UNCHANGED <<decoderVars, final, selectVars, outcome, storeVars>>

\* QueryHandler up to the first scanner.Scan(), as QueryStream, in a turn of
\* the session: handleStreamResponse declares its locals anew.
TurnStream ==
    /\ pc = "prompt"
    /\ \E input \in Inputs : messages' = AppendUser(messages, input)
    /\ \E b \in TurnBodies : body' = b
    /\ pos' = 0
    /\ scanErr' = FALSE
    /\ SetDecoder(InitDecoder)
    /\ pc' = "stream"
    /\ UNCHANGED <<final, selectVars, outcome, storeVars>>

\* QueryHandler has returned and main's loop reads the next input.
NextTurn ==
    /\ pc = "returned"
    /\ Len(messages) < MaxTurnHistory
    /\ pc' = "prompt"
    /\ UNCHANGED <<messages, streamVars, decoderVars, final, selectVars, outcome, storeVars>>

InitTurns ==
    /\ messages = <<>>
    /\ pc = "prompt"
    /\ body = <<>>
    /\ pos = 0
    /\ scanErr = FALSE
    /\ fullResponse = ""
    /\ assistantRole = "assistant"
    /\ currentlyReasoning = FALSE
    /\ reasoningPrinted = FALSE
    /\ botPrefixPrinted = FALSE
    /\ out = <<>>
    /\ logged = 0
    /\ final = <<>>
    /\ systemPrompt = DefaultSystemPrompt
    /\ maxTokens = DefaultMaxTokens
    /\ selected = NoSelection
    /\ outcome = NoRequest
    /\ capacity = maxMessagesForAPI + 1
    /\ handed = NoHand

NextTurns ==
    \/ QueryFailed
    \/ TurnStream
    \/ ScanLine
    \/ ScanEOF
    \/ ScanError
    \/ Resolve
    \/ NextTurn

SpecTurns == InitTurns /\ [][NextTurns]_vars

---------------------------------------------------------------------------
(* The decoder's claims, checked under Spec. *)

\* The lines the scanner has delivered.
Delivered == SubSeq(body, 1, pos)

\* The lines the scanner could read: all of the body, or what it delivered
\* before reading failed.
Readable == IF scanErr THEN Delivered ELSE body

\* The turn is inside QueryHandler, past the request.
InTurn == pc \in {"stream", "ended"}

\* The content chunk an event line carries: the content of its first delta.
ChunkOf(line) ==
    IF line.marker /\ line.text = "json" /\ Len(line.choices) > 0
    THEN line.choices[1].Content
    ELSE ""

ReasoningOf(line) ==
    IF line.marker /\ line.text = "json" /\ Len(line.choices) > 0
    THEN line.choices[1].Reasoning
    ELSE ""

IsSentinel(line) == line.marker /\ line.text = "[DONE]"

IsMalformed(line) == line.marker /\ line.text \notin {"[DONE]", "json"}

\* The concatenation, in order, of the content chunks before the sentinel.
RECURSIVE ExpectedContent(_)
ExpectedContent(lines) ==
    IF Len(lines) = 0 \/ IsSentinel(Head(lines)) THEN ""
    ELSE ChunkOf(Head(lines)) \o ExpectedContent(Tail(lines))

RECURSIVE WithoutMalformed(_)
WithoutMalformed(lines) ==
    IF Len(lines) = 0 THEN <<>>
    ELSE IF IsMalformed(Head(lines)) THEN WithoutMalformed(Tail(lines))
    ELSE <<Head(lines)>> \o WithoutMalformed(Tail(lines))

\* C1: once the scanner has reported a read error, no step of the turn
\* changes the history: nothing is committed, whatever was accumulated or
\* printed before the error.
C1_NoCommitAfterReadError ==
    [][(InTurn /\ scanErr') => messages' = messages]_vars

\* C1 witness: a turn that returned after a read error, with content
\* accumulated and shown, and the history still ending with the user message.
C1_Witness ==
    /\ pc = "returned"
    /\ scanErr
    /\ fullResponse # ""
    /\ \E i \in 1..Len(out) : out[i] = botPrefix
    /\ Len(final) = 2 /\ final[2] = ReadErrorNotice
    /\ messages[Len(messages)].role = "user"

\* C2: at every point of decoding, and so at its end, the accumulated
\* content is the concatenation in arrival order of the content chunks of
\* the parsed events delivered before the sentinel; no reasoning text is in it.
C2_ContentIsConcatenation ==
    /\ pc = "stream" => fullResponse = ExpectedContent(Delivered)
    /\ pc \in {"ended", "returned"} => fullResponse = ExpectedContent(Readable)

\* C2 witness: a finished turn whose stream went content, reasoning, content.
C2_Witness ==
    /\ pc = "returned"
    /\ pos = 3
    /\ ChunkOf(body[1]) # "" /\ ReasoningOf(body[1]) = ""
    /\ ReasoningOf(body[2]) # "" /\ ChunkOf(body[2]) = ""
    /\ ChunkOf(body[3]) # ""
    /\ fullResponse = ChunkOf(body[1]) \o ChunkOf(body[3])

\* C3: the step that resolves a turn whose decoding ended without a read
\* error and with content appends exactly one message, carrying the resolved
\* role and the accumulated content.
C3_CommitOnSuccess ==
    [][(pc = "ended" /\ ~scanErr /\ fullResponse # "")
          => messages' = Append(messages, Message(assistantRole, fullResponse))]_vars

\* C3 witness: a committed turn whose stream set a role of its own.
C3_Witness ==
    /\ pc = "returned"
    /\ ~scanErr
    /\ fullResponse # ""
    /\ assistantRole = "bot"
    /\ Len(messages) >= 2
    /\ messages[Len(messages)] = Message("bot", fullResponse)
    /\ messages[Len(messages) - 1].role = "user"

\* C4: once the sentinel line has been delivered, no later step of the turn
\* delivers a line or changes the accumulated content, the role, the mode
\* flags or the decoder's output.
C4_NothingAfterSentinel ==
    [][(InTurn /\ pos > 0 /\ IsSentinel(body[pos]))
          => UNCHANGED <<pos, fullResponse, assistantRole, currentlyReasoning,
                         reasoningPrinted, botPrefixPrinted, out>>]_vars

\* C4 witness: a finished turn whose body has a content line after the
\* sentinel, which was never delivered.
C4_Witness ==
    /\ pc = "returned"
    /\ pos > 0 /\ pos < Len(body)
    /\ IsSentinel(body[pos])
    /\ ChunkOf(body[pos + 1]) # ""
    /\ fullResponse = ExpectedContent(Delivered)

C5_Skipped ==
    (InTurn /\ pos' = pos + 1 /\ IsMalformed(body[pos']))
        => UNCHANGED <<fullResponse, assistantRole, currentlyReasoning,
                       reasoningPrinted, botPrefixPrinted, out>>

C5_SameAsWithout ==
    pc \in {"ended", "returned"} =>
        LET d == HandleStream(WithoutMalformed(Readable))
        IN  /\ fullResponse = d.fullResponse
            /\ assistantRole = d.assistantRole
            /\ out = d.out

\* C5: the step that delivers a data line whose payload does not parse
\* changes no field of the decoder state, and at the end of decoding the
\* accumulated content (with the role and the output) is what the same
\* stream without its malformed lines gives.
C5_MalformedLineSkipped ==
    [](C5_SameAsWithout) /\ [][C5_Skipped]_vars

\* C5 witness: a committed turn with a malformed line between two content
\* lines.
C5_Witness ==
    /\ pc = "returned"
    /\ pos = 3
    /\ ChunkOf(body[1]) # ""
    /\ IsMalformed(body[2])
    /\ ChunkOf(body[3]) # ""
    /\ logged = 1
    /\ messages[Len(messages)] =
           Message(assistantRole, ChunkOf(body[1]) \o ChunkOf(body[3]))

---------------------------------------------------------------------------
(* The context strategy's claims, checked under SpecSelect. *)

\* The configured text holds nothing but white space.
Blank(text) ==
    \A i \in 1..Len(text) : SubSeq(text, i, i) \in {" ", "\t", "\n", "\r", "\f"}

\* A system prompt is configured.
HasSystemPrompt == ~Blank(systemPrompt)

\* The estimated cost of the system prompt, 0 when there is none.
SystemCost == IF HasSystemPrompt THEN 5 + (Len(systemPrompt) \div 4) ELSE 0

RECURSIVE TotalCost(_)
TotalCost(msgs) ==
    IF Len(msgs) = 0 THEN 0
    ELSE 5 + (Len(Head(msgs).content) \div 4) + TotalCost(Tail(msgs))

\* The history part of the selected context: what follows the system prompt.
HistoryPart ==
    IF HasSystemPrompt /\ Len(selected.msgs) > 0
    THEN Tail(selected.msgs)
    ELSE selected.msgs

\* The number of history messages left out of the selected context.
LeftOut == Len(messages) - Len(HistoryPart)

\* C6: whenever the budget is at least the system prompt's cost, the context
\* is returned and its total estimated cost, system prompt included, is at
\* most maxTokens.
C6_CostWithinBudget ==
    (selected.made /\ maxTokens >= SystemCost)
        => ~selected.err /\ TotalCost(selected.msgs) <= maxTokens

\* C6 witness: a context with a system prompt and a history message that
\* leaves older history out.
C6_Witness ==
    /\ selected.made /\ ~selected.err
    /\ HasSystemPrompt
    /\ Len(selected.msgs) >= 2
    /\ Len(selected.msgs) < Len(messages) + 1

\* C7: when the system prompt alone costs more than maxTokens, select fails
\* and returns no message at all.
C7_BudgetExceeded ==
    (selected.made /\ HasSystemPrompt /\ SystemCost > maxTokens)
        => selected.err /\ selected.msgs = <<>>

\* C7 witness: select failed on a store that holds history.
C7_Witness ==
    /\ selected.made /\ selected.err
    /\ SystemCost > maxTokens
    /\ Len(messages) > 0

\* C8: the context is the system prompt, when there is one, followed by a
\* contiguous suffix of the history in its order; the walk stopped at a
\* message that would take the total past maxTokens, and no message older
\* than that one is in the context.
C8_SuffixGreedy ==
    (selected.made /\ ~selected.err) =>
        /\ selected.msgs = SystemMessage(systemPrompt) \o HistoryPart
        /\ LeftOut >= 0
        /\ HistoryPart = SubSeq(messages, LeftOut + 1, Len(messages))
        /\ LeftOut > 0 =>
             TotalCost(selected.msgs) + TotalCost(<<messages[LeftOut]>>) > maxTokens

\* C8 witness: the walk stopped at a message, and an older one that would
\* have fit in the remaining budget was left out with it.
C8_Witness ==
    /\ selected.made /\ ~selected.err
    /\ LeftOut >= 2
    /\ \E i \in 1..(LeftOut - 1) :
          TotalCost(selected.msgs) + TotalCost(<<messages[i]>>) <= maxTokens

\* C9: the history part fits the budget together with the system prompt, and
\* it is the longest such suffix: either nothing is left out, or the newest
\* message left out would take the total past maxTokens.
C9_LongestSuffix ==
    (selected.made /\ ~selected.err) =>
        /\ SystemCost + TotalCost(HistoryPart) <= maxTokens
        /\ \/ LeftOut = 0
           \/ /\ LeftOut > 0
              /\ SystemCost + TotalCost(HistoryPart)
                   + TotalCost(<<messages[LeftOut]>>) > maxTokens

\* C9 witness: a context that keeps some of the history and leaves some out.
C9_Witness ==
    /\ selected.made /\ ~selected.err
    /\ Len(HistoryPart) > 0
    /\ LeftOut > 0

\* The example: system prompt "be concise" (cost 7), budget 20, a first user
\* message of cost 12 and a second of cost 15.
ExampleFirst == Message("user", Text28)

ExampleSecond == Message("user", Text40)

InExample ==
    /\ systemPrompt = "be concise"
    /\ maxTokens = 20
    /\ selected.made

\* C10 as stated: after the second message the context is [system, newest].
C10_AsStated ==
    InExample =>
        /\ messages = <<ExampleFirst>>
             => selected.msgs = <<Message("system", "be concise"), ExampleFirst>>
        /\ messages = <<ExampleFirst, ExampleSecond>>
             => selected.msgs = <<Message("system", "be concise"), ExampleSecond>>

\* C10 amended: after the first message the context is [system, user]; after
\* the second, whose cost of 15 with the system prompt's 7 is past 20, the
\* context is [system] alone.
C10_Example ==
    InExample =>
        /\ messages = <<ExampleFirst>>
             => /\ ~selected.err
                /\ selected.msgs = <<Message("system", "be concise"), ExampleFirst>>
        /\ messages = <<ExampleFirst, ExampleSecond>>
             => /\ ~selected.err
                /\ selected.msgs = <<Message("system", "be concise")>>

\* C10 witness: the example's second selection has been made.
C10_Witness ==
    /\ InExample
    /\ messages = <<ExampleFirst, ExampleSecond>>
    /\ TotalCost(<<ExampleFirst>>) = 12
    /\ TotalCost(<<ExampleSecond>>) = 15
    /\ SystemCost = 7

---------------------------------------------------------------------------
(* The turn's claims, checked under Spec. *)

\* C11 as stated: every step keeps the history it finds as a prefix of the
\* history it leaves, so no entry is removed, moved or rewritten.
C11_AppendOnly ==
    [][/\ Len(messages') >= Len(messages)
       /\ SubSeq(messages', 1, Len(messages)) = messages]_vars

\* C12 as stated: the history changes only in the step that resolves a
\* successfully decoded turn, which appends the user message together with
\* the assistant message; every other step, and so every failed turn, leaves
\* the history as it was before the turn.
C12_UserOnlyOnSuccess ==
    [][messages' # messages =>
          /\ pc = "ended" /\ ~scanErr /\ fullResponse # ""
          /\ \E input \in Inputs :
                messages' = messages \o <<Message("user", input),
                                          Message(assistantRole, fullResponse)>>]_vars

\* The role the stream resolves to: the role of the last event before the
\* sentinel that carries one, the default when there is none.
RECURSIVE ExpectedRole(_, _)
ExpectedRole(role, lines) ==
    IF Len(lines) = 0 \/ IsSentinel(Head(lines)) THEN role
    ELSE LET l == Head(lines)
             carried == IF l.marker /\ l.text = "json" /\ Len(l.choices) > 0
                        THEN l.choices[1].Role ELSE ""
         IN  ExpectedRole(IF carried # "" THEN carried ELSE role, Tail(lines))

\* C17: the step that resolves a turn decoded without a read error, with no
\* content and with reasoning shown, leaves the history unchanged and prints
\* only the closing newline: no error and no empty-turn notice.
C17_AdvisoryOnly ==
    [][(pc = "ended" /\ ~scanErr /\ fullResponse = "" /\ reasoningPrinted)
          => messages' = messages /\ final' = <<NL>>]_vars

\* C17 witness: a turn that showed reasoning and no content has returned.
C17_Witness ==
    /\ pc = "returned"
    /\ ~scanErr
    /\ fullResponse = ""
    /\ reasoningPrinted
    /\ \E i \in 1..Len(out) : out[i] = reasoningPrefix
    /\ final = <<NL>>
    /\ messages[Len(messages)].role = "user"

\* C18: the step that resolves a turn decoded without a read error, with no
\* content and no reasoning, leaves the history unchanged and gives the
\* empty-turn notices, without the read-error report.
C18_EmptyTurn ==
    [][(pc = "ended" /\ ~scanErr /\ fullResponse = "" /\ ~reasoningPrinted)
          => /\ messages' = messages
             /\ final' = <<NoContentNotice, NoTextNotice>>]_vars

\* C18 witness: a turn whose body held lines but no content and no reasoning
\* has returned with the notices.
C18_Witness ==
    /\ pc = "returned"
    /\ ~scanErr
    /\ pos > 0
    /\ fullResponse = ""
    /\ ~reasoningPrinted
    /\ final = <<NoContentNotice, NoTextNotice>>
    /\ messages[Len(messages)].role = "user"

\* C19: the resolved role is "assistant" when no parsed event before the
\* sentinel carried a role, and the role of the last such event otherwise;
\* an event without a role leaves it as it is.
C19_ResolvedRole ==
    /\ pc = "stream" => assistantRole = ExpectedRole("assistant", Delivered)
    /\ pc \in {"ended", "returned"} =>
          assistantRole = ExpectedRole("assistant", Readable)

\* C19 witness: two events carried different roles, an event without a role
\* followed, and the later role is the resolved one.
C19_Witness ==
    /\ pc = "returned"
    /\ pos = 3
    /\ body[1] = EventLine("bot", "", "")
    /\ body[2] = EventLine("ai", "", "")
    /\ ChunkOf(body[3]) # ""
    /\ assistantRole = "ai"
    /\ messages[Len(messages)].role = "ai"

---------------------------------------------------------------------------
(* The store's and the request's claims, checked under SpecSelect. *)

\* C14: on a store that starts empty, every change of the history is one
\* append call adding its role and content as the new last element, all
\* earlier elements staying in place: after N calls the history holds the N
\* messages in call order.
C14_AppendsInOrder ==
    [][messages' # messages =>
          \E role \in Roles, content \in Contents :
              messages' = Append(messages, Message(role, content))]_vars

\* C14 witness: three calls with three different messages have been made.
C14_Witness ==
    messages = <<Message("user", "hi"), Message("assistant", Text28),
                 Message("user", Text40)>>

\* C20: when the system prompt alone costs more than the budget, no request
\* is ever sent, and a turn that got as far as the request ended with the
\* error reported instead; the error is reported in no other case.
C20_NoRequestOverBudget ==
    /\ (HasSystemPrompt /\ SystemCost > maxTokens) => ~outcome.sent
    /\ (outcome.sent \/ outcome.err) =>
          (outcome.err <=> (HasSystemPrompt /\ SystemCost > maxTokens))
    /\ ~(outcome.sent /\ outcome.err)

\* C20 witness: with history in the store, the turn ended with BudgetExceeded
\* and without a request.
C20_Witness ==
    /\ SystemCost > maxTokens
    /\ Len(messages) > 0
    /\ outcome.err
    /\ ~outcome.sent

---------------------------------------------------------------------------
(* The claims about the slices of the store, checked under SpecStore. *)

\* C13 as stated: the system prompt, when there is one, is no entry of the
\* history, and it is the first element of the context handed out for the
\* request.
C13_SystemPromptApart ==
    systemPrompt # "" =>
        /\ \A i \in 1..Len(messages) : messages[i] # Message("system", systemPrompt)
        /\ (handed.made /\ handed.fresh) =>
              /\ Len(handed.msgs) > 0
              /\ handed.msgs[1] = Message("system", systemPrompt)

\* C15 as stated: the history changes only by the store's own append, which
\* adds one entry at the end, so nothing a caller does to the sequence it
\* was handed changes it; and an append to the store leaves a sequence
\* handed out earlier as it was.
C15_IndependentCopy ==
    [][/\ messages' # messages =>
             /\ Len(messages') = Len(messages) + 1
             /\ SubSeq(messages', 1, Len(messages)) = messages
       /\ Len(messages') > Len(messages) => handed'.msgs = handed.msgs]_vars

\* C16: a step that returns from GetMessagesForAPI leaves the history and
\* the system prompt unchanged, and a call that follows another with nothing
\* in between returns the same sequence.
C16_ReadOnly ==
    [][/\ handed'.fresh => messages' = messages /\ systemPrompt' = systemPrompt
       /\ (handed.fresh /\ handed'.fresh) => handed'.msgs = handed.msgs]_vars

\* C16 witness: the context of a history longer than maxMessagesForAPI has
\* just been handed out: the last maxMessagesForAPI entries, the store whole.
C16_Witness ==
    /\ handed.made /\ handed.fresh
    /\ Len(messages) > maxMessagesForAPI
    /\ Len(handed.msgs) = maxMessagesForAPI
    /\ handed.msgs = SubSeq(messages, Len(messages) - maxMessagesForAPI + 1, Len(messages))
    /\ EditCount(messages) = 0

---------------------------------------------------------------------------
(* Further claims about the turn and the store. *)

\* C21: while the response is being decoded, from the first scanner.Scan()
\* to the end of the loop, no step writes to the history.
C21_NoWriteWhileDecoding ==
    [][pc = "stream" => messages' = messages]_vars

\* C21 witness: the loop has ended after two lines with content accumulated,
\* and the history still ends with the user message of the turn.
C21_Witness ==
    /\ pc = "ended"
    /\ pos >= 2
    /\ fullResponse # ""
    /\ Len(messages) > 0
    /\ messages[Len(messages)] = Message("user", "hello")

\* C22: the sequence GetMessagesForAPI returns is the whole history when it
\* holds at most maxMessagesForAPI messages and its last maxMessagesForAPI
\* messages, in their order, otherwise; the call leaves the history as it is.
C22_RecentWindow ==
    [][handed'.fresh =>
          /\ messages' = messages
          /\ Len(handed'.msgs) = (IF Len(messages) <= 20 THEN Len(messages) ELSE 20)
          /\ \A i \in 1..Len(handed'.msgs) :
                handed'.msgs[i] = messages[Len(messages) - Len(handed'.msgs) + i]]_vars

\* C22 witness: a history of 22 messages was asked for its context, which
\* starts at the third message.
C22_Witness ==
    /\ handed.made /\ handed.fresh
    /\ Len(messages) = 22
    /\ Len(handed.msgs) = 20
    /\ handed.msgs[1] = messages[3]
    /\ handed.msgs[1] # messages[1]

\* C23: a configured text that is empty or white space only gives no system
\* message, and the context sent for it holds history messages only, in
\* their order, so that it starts with a history message.
C23_BlankIsNoSystemPrompt ==
    Blank(systemPrompt) =>
        /\ SystemMessage(systemPrompt) = <<>>
        /\ ~outcome.err
        /\ outcome.sent =>
              /\ Len(outcome.msgs) <= Len(messages)
              /\ \A i \in 1..Len(outcome.msgs) :
                    /\ outcome.msgs[i].role # "system"
                    /\ outcome.msgs[i] =
                          messages[Len(messages) - Len(outcome.msgs) + i]

\* C23 witness: with a text of blanks and a tab configured, a context was
\* sent that starts with the user's message.
C23_Witness ==
    /\ systemPrompt # ""
    /\ Blank(systemPrompt)
    /\ outcome.sent
    /\ Len(outcome.msgs) > 0
    /\ outcome.msgs[1].role = "user"

\* C24: once the loop has ended, by the sentinel, by the end of the body or
\* by a read error, and once a read error is recorded, no further line is
\* processed and no local of the decoder changes; a recorded read error ends
\* the loop in the next step, in whatever output mode the decoder is; and an
\* ended loop does not change between failed and done.
C24_TerminalStates ==
    [][/\ (pc \in {"ended", "returned"} \/ scanErr) => UNCHANGED <<decoderVars, pos>>
       /\ (pc = "stream" /\ scanErr) => (pc' = "ended" /\ scanErr')
       /\ pc \in {"ended", "returned"} => scanErr' = scanErr]_vars

\* C24 witness: the read failed while reasoning was being shown, with lines
\* of the body still unread, and the turn returned with the decoder as the
\* failure left it.
C24_Witness ==
    /\ pc = "returned"
    /\ scanErr
    /\ currentlyReasoning
    /\ pos > 0
    /\ pos < Len(body)
    /\ final = <<NL, ReadErrorNotice>>

\* What QueryHandler prints after the loop for the decoder state d of a
\* stream read without error.
ExpectedFinal(d) ==
    (IF d.botPrefixPrinted \/ d.reasoningPrinted THEN <<NL>> ELSE <<NoContentNotice>>)
    \o (IF d.fullResponse = "" /\ ~d.reasoningPrinted THEN <<NoTextNotice>> ELSE <<>>)

\* The scanner loop of the turn has run and ended (a turn whose request
\* failed returns without printing a final line).
Decoded == pc = "ended" \/ (pc = "returned" /\ Len(final) > 0)

\* C25: a body without the sentinel that was read to its end without error
\* leaves the decoder as the same body followed by the sentinel does, and
\* the turn resolves in the same way: content, when there is some, is
\* committed with the resolved role.
C25_EndOfStreamAsSentinel ==
    (/\ Decoded
     /\ ~scanErr
     /\ pos = Len(body)
     /\ \A i \in 1..Len(body) : ~IsSentinel(body[i]))
        => LET d == HandleStream(Append(body, DoneLine))
           IN  /\ d.brk
               /\ fullResponse = d.fullResponse
               /\ assistantRole = d.assistantRole
               /\ out = d.out
               /\ currentlyReasoning = d.currentlyReasoning
               /\ reasoningPrinted = d.reasoningPrinted
               /\ botPrefixPrinted = d.botPrefixPrinted
               /\ pc = "returned" =>
                     /\ final = ExpectedFinal(d)
                     /\ messages[Len(messages)] =
                           (IF d.fullResponse # ""
                            THEN Message(d.assistantRole, d.fullResponse)
                            ELSE Message("user", "hello"))

\* C25 witness: a body of a role and two content lines, without sentinel,
\* was read to its end and committed with that role.
C25_Witness ==
    /\ pc = "returned"
    /\ ~scanErr
    /\ pos = 3
    /\ body = <<EventLine("bot", "", ""), EventLine("", "Hel", ""), EventLine("", "lo", "")>>
    /\ messages[Len(messages)] = Message("bot", "Hello")

---------------------------------------------------------------------------
(* The decoder's output signals. *)

\* How often x occurs in the sequence s.
RECURSIVE CountOf(_, _)
CountOf(s, x) ==
    IF Len(s) = 0 THEN 0
    ELSE (IF Head(s) = x THEN 1 ELSE 0) + CountOf(Tail(s), x)

\* The number of content blocks of a stream: the content texts before the
\* sentinel that are the first of the stream or the first after a reasoning
\* text.
RECURSIVE ContentBlocks(_, _)
ContentBlocks(lines, inContent) ==
    IF Len(lines) = 0 \/ IsSentinel(Head(lines)) THEN 0
    ELSE LET afterReasoning ==
                 IF ReasoningOf(Head(lines)) # "" THEN FALSE ELSE inContent
             content == ChunkOf(Head(lines)) # ""
         IN  (IF content /\ ~afterReasoning THEN 1 ELSE 0)
             + ContentBlocks(Tail(lines), content \/ afterReasoning)

\* The lines the loop has processed, or could process, so far.
Processed == IF pc = "stream" THEN Delivered ELSE Readable

C27_ReasoningStart ==
    [][(pc = "stream" /\ pos' = pos + 1) =>
          LET r == ReasoningOf(body[pos'])
              start == r # "" /\ ~currentlyReasoning
              prefix == IF start
                        THEN (IF botPrefixPrinted THEN <<NL>> ELSE <<>>)
                             \o <<reasoningPrefix>>
                        ELSE <<>>
              upto == Len(out) + Len(prefix) + 1
          IN  /\ CountOf(out', reasoningPrefix) =
                    CountOf(out, reasoningPrefix) + (IF start THEN 1 ELSE 0)
              /\ r # "" =>
                    /\ Len(out') >= upto
                    /\ SubSeq(out', 1, upto) = out \o prefix \o <<r>>
                    /\ reasoningPrinted'
                    /\ ChunkOf(body[pos']) = "" => currentlyReasoning']_vars

\* C27 witness: reasoning started twice, once from the idle decoder and once
\* out of a content block, the second time after the separator.
C27_Witness ==
    /\ pc = "returned"
    /\ body = <<EventLine("", "", "hm"), EventLine("", "Hel", ""), EventLine("", "", "hm")>>
    /\ out = <<reasoningPrefix, "hm", NL, botPrefix, "Hel", NL, reasoningPrefix, "hm">>
    /\ currentlyReasoning
    /\ reasoningPrinted

\* C28: the step that delivers a line without the data marker changes no
\* local of the decoder, prints nothing and leaves the loop running.
C28_OtherLinesIgnored ==
    [][(pc = "stream" /\ pos' = pos + 1 /\ ~body[pos'].marker) =>
          (UNCHANGED decoderVars /\ pc' = "stream")]_vars

\* C28 witness: a line without the marker came between reasoning and
\* content, and neither the output nor the committed message shows it.
C28_Witness ==
    /\ pc = "returned"
    /\ body = <<EventLine("", "", "hm"), OtherLine, EventLine("", "Hel", "")>>
    /\ out = <<reasoningPrefix, "hm", NL, botPrefix, "Hel">>
    /\ messages[Len(messages)] = Message("assistant", "Hel")

\* C30: the decoder is never in reasoning mode with the answer prefix marked
\* as printed, and it is in reasoning mode only when reasoning was printed.
C30_OneOutputMode ==
    /\ ~(currentlyReasoning /\ botPrefixPrinted)
    /\ currentlyReasoning => reasoningPrinted

\* C30 witness: reasoning followed content, which took the prefix mark back.
C30_Witness ==
    /\ pc = "stream"
    /\ fullResponse # ""
    /\ currentlyReasoning
    /\ reasoningPrinted
    /\ ~botPrefixPrinted
    /\ CountOf(out, botPrefix) = 1

---------------------------------------------------------------------------
(* The session's claim, checked under SpecTurns. *)

\* The decoder's locals are as handleStreamResponse declares them.
C29_FreshDecoder ==
    (pc = "stream" /\ pos = 0) =>
        /\ fullResponse = ""
        /\ assistantRole = "assistant"
        /\ ~currentlyReasoning
        /\ ~reasoningPrinted
        /\ ~botPrefixPrinted
        /\ out = <<>>

\* The message a turn commits is made of its own response alone.
C29_OwnResponseOnly ==
    (pc = "ended" /\ messages' # messages) =>
        messages' = Append(messages,
                           Message(ExpectedRole("assistant", Readable),
                                   ExpectedContent(Readable)))

\* C29: every turn starts decoding with the default role, no content, no
\* output mode and both flags false, whatever the turn before it left, and
\* the message a turn commits carries the role and the content of its own
\* response only.
C29_DecoderPerTurn ==
    [](C29_FreshDecoder) /\ [][C29_OwnResponseOnly]_vars

\* C29 witness: the first turn adopted a role and committed content, and the
\* second turn committed other content under the default role.
C29_Witness ==
    /\ pc = "returned"
    /\ messages = <<Message("user", "hello"), Message("bot", "Hel"),
                    Message("user", "hello"), Message("assistant", "lo")>>

---------------------------------------------------------------------------
(* Further claims about the decoder's events. *)

\* C31: whenever content has been accumulated, the answer prefix or a
\* reasoning block has been printed; so a turn that commits an assistant
\* message ends with the closing newline alone, without the notice of no
\* response content and without the notice of no text content.
C31_CommitWithoutNotices ==
    /\ fullResponse # "" => (botPrefixPrinted \/ reasoningPrinted)
    /\ (pc = "returned" /\ Len(final) > 0 /\ ~scanErr /\ fullResponse # "") =>
          /\ messages[Len(messages)] = Message(assistantRole, fullResponse)
          /\ final = <<NL>>
          /\ CountOf(final, NoContentNotice) = 0
          /\ CountOf(final, NoTextNotice) = 0

\* C31 witness: a turn committed content that was followed by reasoning, so
\* that the answer prefix is no longer marked as printed.
C31_Witness ==
    /\ pc = "returned"
    /\ ~scanErr
    /\ fullResponse # ""
    /\ ~botPrefixPrinted
    /\ reasoningPrinted
    /\ final = <<NL>>
    /\ messages[Len(messages)] = Message(assistantRole, fullResponse)

\* C32: the step that processes an event carrying both reasoning text and
\* content prints the reasoning first, after the reasoning prefix when the
\* decoder was not in reasoning mode, then the newline that ends the
\* reasoning block, the answer prefix and the content; the content alone is
\* appended to the accumulated answer, and the decoder ends the event out of
\* reasoning mode with the answer prefix printed.
C32_ReasoningThenContent ==
    [][(/\ pc = "stream" /\ pos' = pos + 1
        /\ ReasoningOf(body[pos']) # "" /\ ChunkOf(body[pos']) # "") =>
          LET r == ReasoningOf(body[pos'])
              c == ChunkOf(body[pos'])
              start == IF currentlyReasoning THEN <<>>
                       ELSE (IF botPrefixPrinted THEN <<NL>> ELSE <<>>)
                            \o <<reasoningPrefix>>
          IN  /\ out' = out \o start \o <<r, NL, botPrefix, c>>
              /\ fullResponse' = fullResponse \o c
              /\ ~currentlyReasoning'
              /\ botPrefixPrinted'
              /\ reasoningPrinted']_vars

\* C32 witness: an event with both texts came first, then one after content.
C32_Witness ==
    /\ pc = "returned"
    /\ body = <<EventLine("", "!", "so"), EventLine("", "Hel", ""), EventLine("", "!", "so")>>
    /\ out = <<reasoningPrefix, "so", NL, botPrefix, "!", "Hel",
               NL, reasoningPrefix, "so", NL, botPrefix, "!">>
    /\ messages[Len(messages)] = Message("assistant", "!Hel!")

\* C33: the step that processes a parsed event without choices, or with a
\* first delta whose role, content and reasoning are all empty, changes no
\* local of the decoder and prints nothing; and any parsed event is handled
\* as the event holding its first choice alone.
C33_FirstChoiceOnly ==
    [][(/\ pc = "stream" /\ pos' = pos + 1
        /\ body[pos'].marker /\ body[pos'].text = "json") =>
          LET choices == body[pos'].choices
          IN  /\ (Len(choices) = 0 \/ choices[1] = Delta("", "", "")) =>
                    (UNCHANGED decoderVars /\ pc' = "stream")
              /\ Len(choices) > 0 =>
                    LET e == ProcessLine(DecoderState,
                                         Line(TRUE, "json", <<choices[1]>>))
                    IN  /\ fullResponse' = e.fullResponse
                        /\ assistantRole' = e.assistantRole
                        /\ out' = e.out
                        /\ currentlyReasoning' = e.currentlyReasoning
                        /\ reasoningPrinted' = e.reasoningPrinted
                        /\ botPrefixPrinted' = e.botPrefixPrinted]_vars

\* C33 witness: after content, an event of two choices with an empty first
\* delta and an event without choices were processed and left no trace.
C33_Witness ==
    /\ pc = "returned"
    /\ body = <<EventLine("", "Hel", ""), TwoChoicesLine, NoChoicesLine>>
    /\ pos = 3
    /\ out = <<botPrefix, "Hel">>
    /\ logged = 0
    /\ messages[Len(messages)] = Message("assistant", "Hel")

---------------------------------------------------------------------------
(* The order of the history over the turns, checked under SpecTurns. *)

\* While a call is between its request and its return, the history ends
\* with the call's user message.
C34_UserMessageLast ==
    pc \in {"stream", "ended"} =>
        /\ Len(messages) > 0
        /\ messages[Len(messages)] = Message("user", "hello")

\* The history changes at the start of a call, by the user message put
\* behind what is kept of it, and at the end of the call, by one assistant
\* message put behind everything.
C34_OneMessageAtATime ==
    messages' # messages =>
        \/ /\ pc = "prompt"
           /\ \E k \in 0..Len(messages) :
                 messages' = SubSeq(messages, k + 1, Len(messages))
                             \o <<Message("user", "hello")>>
        \/ /\ pc = "ended"
           /\ pc' = "returned"
           /\ messages' = Append(messages, Message(assistantRole, fullResponse))

\* C34: a call appends at most one assistant message, directly behind the
\* user message of the same call, and every message is put behind all
\* earlier ones, so that the assistant messages stand in the order of their
\* turns.
C34_TurnOrder ==
    [](C34_UserMessageLast) /\ [][C34_OneMessageAtATime]_vars

\* C34 witness: two turns committed their answers, each behind its own user
\* message, the first turn's before the second's.
C34_Witness ==
    /\ pc = "returned"
    /\ messages = <<Message("user", "hello"), Message("assistant", "lo"),
                    Message("user", "hello"), Message("bot", "Hel")>>

---------------------------------------------------------------------------
(* The newest message and the budget, checked under SpecSelect. *)

---------------------------------------------------------------------------
(* The turn as a whole, checked under SpecFair. *)

\* How far QueryHandler is from its return.
Rank(p) ==
    CASE p = "prompt" -> 3
      [] p = "stream" -> 2
      [] p = "ended" -> 1
      [] p = "returned" -> 0

\* A step of the read loop takes the one line behind the lines taken so far
\* and hands it to the decoder; no other step moves in the body or changes
\* the decoder, apart from the start of the call.
C36_InArrivalOrder ==
    /\ pc # "prompt" => body' = body
    /\ (pc # "prompt" /\ (pos' # pos \/ decoderVars' # decoderVars)) =>
          /\ pc = "stream"
          /\ pos < Len(body)
          /\ pos' = pos + 1
          /\ LET d == ProcessLine(DecoderState, body[pos + 1])
             IN  decoderVars' = <<d.fullResponse, d.assistantRole,
                                  d.currentlyReasoning, d.reasoningPrinted,
                                  d.botPrefixPrinted, d.out, d.logged>>

\* Every step brings the return nearer: it takes a line of the body, or it
\* moves QueryHandler on.
C36_Progress ==
    \/ Rank(pc') < Rank(pc)
    \/ pc' = pc /\ pc = "stream" /\ pos' = pos + 1 /\ pos' <= Len(body)

\* The step that resolves the turn has exactly one of the four outcomes,
\* told apart by what it leaves behind: an assistant message (committed), the
\* read-error report (failed), the no-text notice (empty), or none of these
\* after reasoning was shown (advisory-only); and it fails exactly when the
\* read failed.
C36_OneOutcome ==
    (pc = "ended" /\ pc' = "returned") =>
        LET committed == messages' # messages
            failed == CountOf(final', ReadErrorNotice) > 0
            empty == CountOf(final', NoTextNotice) > 0
            advisory == ~committed /\ ~failed /\ ~empty /\ reasoningPrinted
            Count(b) == IF b THEN 1 ELSE 0
        IN  /\ Count(committed) + Count(failed) + Count(empty) + Count(advisory) = 1
            /\ failed <=> scanErr
            /\ committed => messages' = Append(messages, Message(assistantRole, fullResponse))
            /\ ~committed => messages' = messages

=============================================================================
